---- MODULE Spec2Model ----
(***************************************************************************)
(* skeeterdns: a DNS responder whose record table is kept in step with an  *)
(* MQTT topic tree, plus an HTTP admin surface that republishes onto the   *)
(* same topics.  Model of src/src/server.ts (startServer) and of the       *)
(* configuration schema in src/src/config.ts.                              *)
(*                                                                         *)
(* Names, topics and suffixes are sequences of one-character strings, so   *)
(* that startsWith / substring / endsWith are computed character by        *)
(* character as the JavaScript string methods compute them.  Record values *)
(* and addresses are never taken apart by the code and are plain strings.  *)
(***************************************************************************)
EXTENDS Integers, Sequences, FiniteSets, TLC

VARIABLES
    config,      \* the Config object handed to startServer (never written)
    records,     \* const records = new Map<string, DnsAnswer>()
    mqttState,   \* connection state of mqttClient
    inflight,    \* messages on their way to the 'message' handler, oldest first
    last,        \* what the handler that ran last was given and what it emitted
    tombstoned,  \* history: the subdomain topics whose latest delivery was empty
    retained     \* the broker's retained message per topic (broker specification)

vars == <<config, records, mqttState, inflight, last, tombstoned, retained>>

----------------------------------------------------------------------------
(* Bounds of the model *)

MaxInflight == 1
MaxQuestions == 2

----------------------------------------------------------------------------
(* JavaScript string methods on character sequences *)

startsWith(s, p) == Len(p) <= Len(s) /\ SubSeq(s, 1, Len(p)) = p

endsWith(s, p) == Len(p) <= Len(s) /\ SubSeq(s, Len(s) - Len(p) + 1, Len(s)) = p

substring(s, start) == SubSeq(s, start + 1, Len(s))

----------------------------------------------------------------------------
(* String literals used by the configurations, topics and queries *)

Slash == <<"/">>
Dot == <<".">>
EmptyString == <<>>

str_dns == <<"d", "n", "s">>
str_lan_test == <<"l", "a", "n", ".", "t", "e", "s", "t">>
str_an_test == <<"a", "n", ".", "t", "e", "s", "t">>
str_example_org == <<"e", "x", "a", "m", "p", "l", "e", ".", "o", "r", "g">>
str_otherdomain_org ==
    <<"o", "t", "h", "e", "r", "d", "o", "m", "a", "i", "n", ".", "o", "r", "g">>
str_printer == <<"p", "r", "i", "n", "t", "e", "r">>
str_nas == <<"n", "a", "s">>
str_foo == <<"f", "o", "o">>

----------------------------------------------------------------------------
(* Configuration: configSchema of config.ts *)

DefaultTtl == 300

FallbackAddress == "192.0.2.1"

\* dns.fallbackDomains: z.array(z.string()) puts no constraint on the strings
FallbackDomainLists ==
    { <<>>,
      <<str_lan_test>>,
      <<str_example_org, str_an_test>>,
      <<EmptyString, str_lan_test>> }

ConfigWith(fallbackDomains) ==
    [ debug |-> FALSE,
      mqtt |-> [topicPrefix |-> str_dns],
      dns |-> [ domain |-> str_lan_test,
                ttl |-> DefaultTtl,
                fallbackDomains |-> fallbackDomains,
                fallbackAddress |-> FallbackAddress ] ]

Configs == {ConfigWith(fd) : fd \in FallbackDomainLists}

\* the configurations the whole-system specification starts from
SystemConfigs == {ConfigWith(<<>>), ConfigWith(<<str_lan_test>>)}

\* const mqttTopic = `${config.mqtt.topicPrefix}/${config.dns.domain}`
mqttTopic(cfg) == cfg.mqtt.topicPrefix \o Slash \o cfg.dns.domain

\* a name with the domain in front of the subdomain
Fqdn_DomainFirst(cfg, subdomain) == cfg.dns.domain \o Dot \o subdomain

\* `${subdomain}.${config.dns.domain}`
Fqdn(cfg, subdomain) == subdomain \o Dot \o cfg.dns.domain

\* `${mqttTopic}/${subdomain}`
TopicOf(cfg, subdomain) == mqttTopic(cfg) \o Slash \o subdomain

----------------------------------------------------------------------------
(* JSON: the text on the wire is a sequence of tokens; JSON.parse turns it  *)
(* into a value or throws, JSON.stringify turns an object into text.        *)

JsString(s) == [t |-> "string", s |-> s]
\* a JSON number: n when int, n + 1/2 otherwise
JsNumber(n, isInt) == [t |-> "number", n |-> n, int |-> isInt]
JsNull == [t |-> "null"]
JsObject(m) == [t |-> "object", m |-> m]

TokLBrace == [tok |-> "{"]
TokRBrace == [tok |-> "}"]
TokColon == [tok |-> ":"]
TokComma == [tok |-> ","]
TokLit(v) == [tok |-> "lit", v |-> v]
TokJunk == [tok |-> "junk"]

EmptyObject == [k \in {} |-> JsNull]

SetKey(m, key, v) == [k \in (DOMAIN m) \cup {key} |-> IF k = key THEN v ELSE m[k]]

Thrown == [ok |-> FALSE]
Returned(v) == [ok |-> TRUE, value |-> v]

\* members of an object literal from token i on: key : value (, key : value)* }
RECURSIVE ParseMembers(_, _, _)
ParseMembers(text, i, m) ==
    IF /\ i + 3 <= Len(text)
       /\ text[i].tok = "lit" /\ text[i].v.t = "string"
       /\ text[i + 1] = TokColon
       /\ text[i + 2].tok = "lit"
    THEN LET m2 == SetKey(m, text[i].v.s, text[i + 2].v)
         IN  IF text[i + 3] = TokRBrace
             THEN IF i + 3 = Len(text) THEN Returned(JsObject(m2)) ELSE Thrown
             ELSE IF text[i + 3] = TokComma
                  THEN ParseMembers(text, i + 4, m2)
                  ELSE Thrown
    ELSE Thrown

JSONparse(text) ==
    IF Len(text) = 0 THEN Thrown
    ELSE IF text[1].tok = "lit"
         THEN IF Len(text) = 1 THEN Returned(text[1].v) ELSE Thrown
         ELSE IF text[1] = TokLBrace
              THEN IF Len(text) = 2 /\ text[2] = TokRBrace
                   THEN Returned(JsObject(EmptyObject))
                   ELSE ParseMembers(text, 2, EmptyObject)
              ELSE Thrown

\* a member `key: value` of an object being written, with its leading comma
Member(first, key, v) ==
    (IF first THEN <<>> ELSE <<TokComma>>)
        \o <<TokLit(JsString(key)), TokColon, TokLit(v)>>

\* JSON.stringify of an object {type, value, ttl}: a key whose value is
\* undefined (here: a key the record does not have) is left out
JSONstringify(obj) ==
    <<TokLBrace>>
        \o Member(TRUE, "type", JsString(obj.type))
        \o Member(FALSE, "value", JsString(obj.value))
        \o (IF "ttl" \in DOMAIN obj
            THEN Member(FALSE, "ttl", JsNumber(obj.ttl, TRUE))
            ELSE <<>>)
        \o <<TokRBrace>>

----------------------------------------------------------------------------
(* recordSchema *)

RecordTypes == {"A", "CNAME", "TXT"}

\* a schema whose ttl is an integer of any sign
recordSchemaParse_AnyInt(v) ==
    IF /\ v.t = "object"
       /\ "type" \in DOMAIN v.m
       /\ v.m["type"].t = "string"
       /\ v.m["type"].s \in RecordTypes
       /\ "value" \in DOMAIN v.m
       /\ v.m["value"].t = "string"
       /\ v.m["value"].s # ""
       /\ "ttl" \in DOMAIN v.m =>
              /\ v.m["ttl"].t = "number"
              /\ v.m["ttl"].int
    THEN Returned(
            IF "ttl" \in DOMAIN v.m
            THEN [type |-> v.m["type"].s, value |-> v.m["value"].s, ttl |-> v.m["ttl"].n]
            ELSE [type |-> v.m["type"].s, value |-> v.m["value"].s])
    ELSE Thrown

\* recordSchema.parse(v): the stripped payload, or a thrown ZodError
recordSchemaParse(v) ==
    IF /\ v.t = "object"
       /\ "type" \in DOMAIN v.m
       /\ v.m["type"].t = "string"
       /\ v.m["type"].s \in RecordTypes
       /\ "value" \in DOMAIN v.m
       /\ v.m["value"].t = "string"
       /\ v.m["value"].s # ""
       /\ "ttl" \in DOMAIN v.m =>
              /\ v.m["ttl"].t = "number"
              /\ v.m["ttl"].int
              /\ v.m["ttl"].n > 0
    THEN Returned(
            IF "ttl" \in DOMAIN v.m
            THEN [type |-> v.m["type"].s, value |-> v.m["value"].s, ttl |-> v.m["ttl"].n]
            ELSE [type |-> v.m["type"].s, value |-> v.m["value"].s])
    ELSE Thrown

\* recordSchema.parse(JSON.parse(messageString)) inside the try block
DecodePayload(messageString) ==
    LET parsed == JSONparse(messageString)
    IN  IF parsed.ok THEN recordSchemaParse(parsed.value) ELSE Thrown

----------------------------------------------------------------------------
(* The record store: a Map from fqdn to DnsAnswer *)

EmptyMap == [k \in {} |-> 0]

MapHas(m, k) == k \in DOMAIN m

MapSet(m, k, v) == [x \in (DOMAIN m) \cup {k} |-> IF x = k THEN v ELSE m[x]]

MapDelete(m, k) == [x \in (DOMAIN m) \ {k} |-> m[x]]

----------------------------------------------------------------------------
(* mqttClient.on('message') *)

Null == [null |-> TRUE]
NonNull(s) == [null |-> FALSE, s |-> s]

\* a test that lets the empty subdomain through
Falsy_NullOnly(x) == x.null

\* !x for x a string or null
Falsy(x) == x.null \/ x.s = EmptyString

getSubdomainFromTopic(baseTopic, topic) ==
    IF startsWith(topic, baseTopic \o Slash)
    THEN NonNull(substring(topic, Len(baseTopic \o Slash)))
    ELSE Null

\* an answer that always carries the configured default TTL
CnameAnswer_DefaultTtl(cfg, fqdn, payload) ==
    [ name |-> fqdn,
      type |-> "CNAME",
      class |-> "IN",
      ttl |-> cfg.dns.ttl,
      domain |-> payload.value ]

\* the DnsAnswer the handler stores for a CNAME payload
CnameAnswer(cfg, fqdn, payload) ==
    [ name |-> fqdn,
      type |-> "CNAME",
      class |-> "IN",
      ttl |-> IF "ttl" \in DOMAIN payload THEN payload.ttl ELSE cfg.dns.ttl,
      domain |-> payload.value ]

\* a try block that stores a record for every type of the schema
ApplyPayload_AnyType(cfg, recs, fqdn, payload) ==
    MapSet(recs, fqdn,
           [ name |-> fqdn,
             type |-> payload.type,
             class |-> "IN",
             ttl |-> IF "ttl" \in DOMAIN payload THEN payload.ttl ELSE cfg.dns.ttl,
             domain |-> payload.value ])

\* the try block: what a decoded payload does to the store
ApplyPayload(cfg, recs, fqdn, payload) ==
    IF payload.type = "CNAME"
    THEN MapSet(recs, fqdn, CnameAnswer(cfg, fqdn, payload))
    ELSE recs

\* a catch block that drops the entry of the offending topic
CatchPayloadError_Drops(recs, fqdn) == MapDelete(recs, fqdn)

\* the catch block: the store is not touched
CatchPayloadError(recs, fqdn) == recs

\* a tombstone that clears the whole map
ApplyTombstone_Clears(recs, fqdn) == EmptyMap

\* a tombstone that leaves the entry in place
ApplyTombstone_Keeps(recs, fqdn) == recs

\* messageString === '': records.delete(fqdn)
ApplyTombstone(recs, fqdn) == MapDelete(recs, fqdn)

\* the whole handler: the store after it, whether mqttPayloadErrorCounter was
\* incremented, whether the payload was handed to JSON.parse, and what
\* records.delete returned (true when it removed an entry)
messageHandler(cfg, recs, topic, messageString) ==
    LET subdomain == getSubdomainFromTopic(mqttTopic(cfg), topic)
    IN  IF Falsy(subdomain)
        THEN [ records |-> recs,
               payloadError |-> FALSE, parsed |-> FALSE, removed |-> FALSE ]
        ELSE LET fqdn == Fqdn(cfg, subdomain.s)
             IN  IF messageString = EmptyString
                 THEN [ records |-> ApplyTombstone(recs, fqdn),
                        payloadError |-> FALSE, parsed |-> FALSE,
                        removed |-> MapHas(recs, fqdn) ]
                 ELSE LET decoded == DecodePayload(messageString)
                      IN  IF decoded.ok
                          THEN [ records |-> ApplyPayload(cfg, recs, fqdn, decoded.value),
                                 payloadError |-> FALSE, parsed |-> TRUE,
                                 removed |-> FALSE ]
                          ELSE [ records |-> CatchPayloadError(recs, fqdn),
                                 payloadError |-> TRUE, parsed |-> TRUE,
                                 removed |-> FALSE ]

----------------------------------------------------------------------------
(* handleDnsRequest *)

Undefined == [undefined |-> TRUE]
Defined(s) == [undefined |-> FALSE, s |-> s]

Min(S) == CHOOSE x \in S : \A y \in S : x <= y

\* fallbackDomains.find((suffix) => name.endsWith(suffix))
FindFallback(fallbackDomains, name) ==
    LET hits == {i \in 1..Len(fallbackDomains) : endsWith(name, fallbackDomains[i])}
    IN  IF hits = {} THEN Undefined ELSE Defined(fallbackDomains[Min(hits)])

\* a test against null only, which undefined passes
Truthy_NotNull(x) == TRUE

\* if (matchedFallback): undefined and the empty string are both falsy
Truthy(x) == ~x.undefined /\ x.s # EmptyString

\* a fallback answer that is not cached
FallbackAnswer_ZeroTtl(cfg, name) ==
    [ name |-> name,
      type |-> "A",
      class |-> "IN",
      ttl |-> 0,
      address |-> cfg.dns.fallbackAddress ]

FallbackAnswer(cfg, name) ==
    [ name |-> name,
      type |-> "A",
      class |-> "IN",
      ttl |-> cfg.dns.ttl,
      address |-> cfg.dns.fallbackAddress ]

\* answers that add the fallback answer to an exact match
Answers_AlsoFallback(cfg, recs, name) ==
    (IF MapHas(recs, name) THEN <<recs[name]>> ELSE <<>>)
        \o (IF Truthy(FindFallback(cfg.dns.fallbackDomains, name))
            THEN <<FallbackAnswer(cfg, name)>>
            ELSE <<>>)

\* response.answers when the handler reaches sendResponse
Answers(cfg, recs, name) ==
    IF MapHas(recs, name)
    THEN <<recs[name]>>
    ELSE IF Truthy(FindFallback(cfg.dns.fallbackDomains, name))
         THEN <<FallbackAnswer(cfg, name)>>
         ELSE <<>>

\* a handler that responds only when it has an answer
SendResponses_OnlyAnswered(request, answers) ==
    IF Len(answers) = 0 THEN <<>>
    ELSE << [questions |-> request.questions, answers |-> answers] >>

\* the responses handed to sendResponse, in order
SendResponses(request, answers) ==
    << [questions |-> request.questions, answers |-> answers] >>

RECURSIVE AnswersOfQuestions(_, _, _, _)
\* the answers of every question from the i-th on, in order
AnswersOfQuestions(cfg, recs, questions, i) ==
    IF i > Len(questions) THEN <<>>
    ELSE Answers(cfg, recs, questions[i].name)
            \o AnswersOfQuestions(cfg, recs, questions, i + 1)

\* a handler that resolves every question of the request
handleDnsRequest_EveryQuestion(cfg, recs, request) ==
    IF Len(request.questions) = 0
    THEN [threw |-> TRUE, sent |-> <<>>, notFound |-> FALSE]
    ELSE LET answers == AnswersOfQuestions(cfg, recs, request.questions, 1)
         IN  [ threw |-> FALSE,
               sent |-> SendResponses(request, answers),
               notFound |-> Len(answers) = 0 ]

\* a handler that answers from the store only while the broker is connected
handleDnsRequest_NeedsBroker(cfg, recs, request) ==
    IF Len(request.questions) = 0
    THEN [threw |-> TRUE, sent |-> <<>>, notFound |-> FALSE]
    ELSE LET name == request.questions[1].name
             answers == IF mqttState = "connected"
                        THEN Answers(cfg, recs, name)
                        ELSE <<>>
         IN  [ threw |-> FALSE,
               sent |-> SendResponses(request, answers),
               notFound |-> Len(answers) = 0 ]

\* the handler: `const { name } = question` throws when there is no question
handleDnsRequest(cfg, recs, request) ==
    IF Len(request.questions) = 0
    THEN [threw |-> TRUE, sent |-> <<>>, notFound |-> FALSE]
    ELSE LET name == request.questions[1].name
             answers == Answers(cfg, recs, name)
         IN  [ threw |-> FALSE,
               sent |-> SendResponses(request, answers),
               notFound |-> Len(answers) = 0 ]

----------------------------------------------------------------------------
(* The admin routes *)

\* mqttClient.publish(topic, message, { retain: true })
PublishCall(topic, message) == [topic |-> topic, message |-> message, retain |-> TRUE]

\* { type: payload.type, value: payload.value, ttl: payload.ttl }
PayloadOfBody(body) ==
    IF "ttl" \in DOMAIN body
    THEN [type |-> body.type, value |-> body.value, ttl |-> body.ttl]
    ELSE [type |-> body.type, value |-> body.value]

\* POST /records, body validated against recordSchema.extend({ subdomain })
postRecords(cfg, body) ==
    [ published |-> << PublishCall(TopicOf(cfg, body.subdomain),
                                   JSONstringify(PayloadOfBody(body))) >>,
      status |-> 201 ]

\* a PUT that publishes without the retain flag
putRecord_NoRetain(cfg, subdomain, body) ==
    [ published |-> << [ topic |-> TopicOf(cfg, subdomain),
                         message |-> JSONstringify(body),
                         retain |-> FALSE ] >>,
      status |-> 201 ]

\* PUT /records/:subdomain, body validated against recordSchema
putRecord(cfg, subdomain, body) ==
    [ published |-> << PublishCall(TopicOf(cfg, subdomain), JSONstringify(body)) >>,
      status |-> 201 ]

\* DELETE /records/:subdomain
deleteRecord(cfg, subdomain) ==
    [ published |-> << PublishCall(TopicOf(cfg, subdomain), EmptyString) >>,
      status |-> 204 ]

\* a lookup keyed by the bare subdomain
getRecord_BySubdomain(cfg, recs, subdomain) ==
    IF MapHas(recs, subdomain)
    THEN [threw |-> FALSE, status |-> 200, json |-> <<recs[subdomain]>>]
    ELSE [threw |-> TRUE, status |-> 500, json |-> <<>>]

\* GET /records/:subdomain: a thrown Error reaches express's error handler
getRecord(cfg, recs, subdomain) ==
    LET fqdn == Fqdn(cfg, subdomain)
    IN  IF MapHas(recs, fqdn)
        THEN [threw |-> FALSE, status |-> 200, json |-> <<recs[fqdn]>>]
        ELSE [threw |-> TRUE, status |-> 500, json |-> <<>>]

\* GET /records
listRecords(recs) == [status |-> 200, json |-> {recs[k] : k \in DOMAIN recs}]

----------------------------------------------------------------------------
(* Inputs *)

Subdomains == {str_printer, str_nas}

PayloadCname == [type |-> "CNAME", value |-> "printer.internal"]
PayloadCnameTtl == [type |-> "CNAME", value |-> "nas.internal", ttl |-> 60]
PayloadCnameMinTtl == [type |-> "CNAME", value |-> "printer.internal", ttl |-> 1]
PayloadCnameMaxTtl ==
    [type |-> "CNAME", value |-> "printer.internal", ttl |-> 2147483647]
PayloadA == [type |-> "A", value |-> "10.0.0.1"]
PayloadTxt == [type |-> "TXT", value |-> "hello"]

\* request bodies the validate() middleware lets through
AdminPayloads == {PayloadCnameTtl, PayloadA}

\* recordSchema.extend({ subdomain }) bodies
PostBodies ==
    { IF "ttl" \in DOMAIN p
      THEN [subdomain |-> s, type |-> p.type, value |-> p.value, ttl |-> p.ttl]
      ELSE [subdomain |-> s, type |-> p.type, value |-> p.value]
      : s \in Subdomains, p \in AdminPayloads }

\* the text of an object literal with the given <<key, value>> members
RECURSIVE MembersText(_, _)
MembersText(members, i) ==
    IF i > Len(members) THEN <<>>
    ELSE Member(i = 1, members[i][1], members[i][2]) \o MembersText(members, i + 1)

ObjectText(members) == <<TokLBrace>> \o MembersText(members, 1) \o <<TokRBrace>>

\* a key the schema does not know is stripped
TextExtraKey ==
    ObjectText(<< <<"value", JsString("printer.internal")>>,
                  <<"extra", JsNull>>,
                  <<"type", JsString("CNAME")>> >>)

ValidTexts ==
    { JSONstringify(PayloadCname),
      JSONstringify(PayloadCnameTtl),
      JSONstringify(PayloadCnameMinTtl),
      JSONstringify(PayloadCnameMaxTtl),
      JSONstringify(PayloadA),
      JSONstringify(PayloadTxt),
      TextExtraKey }

CnameWith(members) ==
    ObjectText(<< <<"type", JsString("CNAME")>> >> \o members)

InvalidTexts ==
    { <<TokJunk>>,
      <<TokLBrace>>,
      <<TokLit(JsNull)>>,
      <<TokLit(JsNumber(42, TRUE))>>,
      ObjectText(<<>>),
      JSONstringify(PayloadCname) \o <<TokJunk>>,
      ObjectText(<< <<"type", JsString("MX")>>, <<"value", JsString("mail.internal")>> >>),
      CnameWith(<<>>),
      CnameWith(<< <<"value", JsString("")>> >>),
      CnameWith(<< <<"value", JsNumber(5, TRUE)>> >>),
      CnameWith(<< <<"value", JsString("x.internal")>>, <<"ttl", JsNumber(0, TRUE)>> >>),
      CnameWith(<< <<"value", JsString("x.internal")>>, <<"ttl", JsNumber(0 - 5, TRUE)>> >>),
      CnameWith(<< <<"value", JsString("x.internal")>>, <<"ttl", JsNumber(1, FALSE)>> >>),
      CnameWith(<< <<"value", JsString("x.internal")>>, <<"ttl", JsNull>> >>),
      CnameWith(<< <<"value", JsString("x.internal")>>, <<"ttl", JsString("60")>> >>) }

TopicPrinter == str_dns \o Slash \o str_lan_test \o Slash \o str_printer
TopicNas == str_dns \o Slash \o str_lan_test \o Slash \o str_nas

\* topics outside `${mqttTopic}/<subdomain>`
ForeignTopics ==
    { str_dns \o Slash \o str_lan_test \o Slash,
      str_dns \o Slash \o str_lan_test,
      str_dns \o Slash \o str_otherdomain_org \o Slash \o str_printer }

\* messages other publishers put on the broker
ExternalMessages ==
    ({TopicPrinter} \X ({EmptyString} \cup ValidTexts \cup InvalidTexts))
    \cup ({TopicNas} \X { EmptyString, JSONstringify(PayloadCname),
                          JSONstringify(PayloadCnameTtl), JSONstringify(PayloadA),
                          <<TokJunk>> })
    \cup (ForeignTopics \X {EmptyString, JSONstringify(PayloadCname), <<TokJunk>>})

\* the few of them the whole-system specification draws from
SystemMessages ==
    ({TopicPrinter, TopicNas}
        \X {EmptyString, JSONstringify(PayloadCname), JSONstringify(PayloadA), <<TokJunk>>})
    \cup ({str_dns \o Slash \o str_lan_test \o Slash} \X {JSONstringify(PayloadCname)})

NamePrinter == str_printer \o Dot \o str_lan_test
NameNas == str_nas \o Dot \o str_lan_test
NameFoo == str_foo \o Dot \o str_lan_test
NameFooExample == str_foo \o Dot \o str_example_org
NameFooOther == str_foo \o Dot \o str_otherdomain_org

QueryNames == {NamePrinter, NameNas, NameFoo, NameFooExample, NameFooOther}

QueryTypes == {"A", "CNAME", "TXT"}

Question(name, type) == [name |-> name, type |-> type, class |-> "IN"]

Questions == {Question(n, t) : n \in QueryNames, t \in QueryTypes}

\* the questions a request may carry after its first
LaterQuestions == {Question(NamePrinter, "A"), Question(NameFooOther, "A")}

LaterSeqs(lo) == UNION {[1..n -> LaterQuestions] : n \in lo..(MaxQuestions - 1)}

DnsRequests ==
    { [questions |-> <<>>] }
    \cup { [questions |-> <<q>>] : q \in Questions }
    \cup { [questions |-> <<q>> \o rest] :
             q \in {Question(NameNas, "A"), Question(NameFoo, "TXT")},
             rest \in LaterSeqs(1) }

SystemDnsRequests ==
    { [questions |-> <<>>] }
    \cup { [questions |-> <<Question(n, "A")>> \o rest] :
             n \in {NamePrinter, NameFooOther}, rest \in LaterSeqs(0) }

----------------------------------------------------------------------------
(* State machine *)

Init ==
    /\ config \in SystemConfigs
    /\ records = EmptyMap
    /\ mqttState = "connecting"
    /\ inflight = <<>>
    /\ last = [op |-> "start"]
    /\ tombstoned = {}
    /\ retained = EmptyMap

\* mqttClient.on('connect'): subscribes to `${mqttTopic}/+`
OnConnect ==
    /\ mqttState = "connecting"
    /\ mqttState' = "connected"
    /\ last' = [op |-> "connect", subscribed |-> mqttTopic(config) \o Slash \o <<"+">>]
    /\ UNCHANGED <<config, records, inflight, tombstoned, retained>>

\* a 'close' handler that forgets the records
OnClose_ClearsStore ==
    /\ mqttState \in {"connecting", "connected"}
    /\ mqttState' = "disconnected"
    /\ records' = EmptyMap
    /\ last' = [op |-> "close"]
    /\ UNCHANGED <<config, inflight, tombstoned, retained>>

\* mqttClient.on('close')
OnClose ==
    /\ mqttState \in {"connecting", "connected"}
    /\ mqttState' = "disconnected"
    /\ last' = [op |-> "close"]
    /\ UNCHANGED <<config, records, inflight, tombstoned, retained>>

\* mqttClient.on('offline')
OnOffline ==
    /\ mqttState = "disconnected"
    /\ last' = [op |-> "offline"]
    /\ UNCHANGED <<config, records, mqttState, inflight, tombstoned, retained>>

\* mqttClient.on('reconnect')
OnReconnect ==
    /\ mqttState = "disconnected"
    /\ mqttState' = "connecting"
    /\ last' = [op |-> "reconnect"]
    /\ UNCHANGED <<config, records, inflight, tombstoned, retained>>

\* mqttClient.on('error')
OnError ==
    /\ last' = [op |-> "error"]
    /\ UNCHANGED <<config, records, mqttState, inflight, tombstoned, retained>>

\* the subdomain topics whose latest delivered message was empty, after one
\* more delivery
Tombstoned(topic, messageString) ==
    IF topic \in {TopicOf(config, s) : s \in Subdomains}
    THEN IF messageString = EmptyString
         THEN tombstoned \cup {topic}
         ELSE tombstoned \ {topic}
    ELSE tombstoned

\* the 'message' handler run on one delivered message
HandleMessage(topic, messageString) ==
    LET r == messageHandler(config, records, topic, messageString)
    IN  /\ records' = r.records
        /\ tombstoned' = Tombstoned(topic, messageString)
        /\ last' = [ op |-> "message",
                     topic |-> topic,
                     message |-> messageString,
                     payloadError |-> r.payloadError,
                     parsed |-> r.parsed,
                     removed |-> r.removed ]

\* the broker delivers a message of another publisher
OnMessage(topic, messageString) ==
    /\ mqttState = "connected"
    /\ HandleMessage(topic, messageString)
    /\ UNCHANGED <<config, mqttState, inflight, retained>>

\* the broker delivers the oldest message in flight to the client
OnPublishedMessage ==
    /\ mqttState = "connected"
    /\ inflight # <<>>
    /\ HandleMessage(Head(inflight).topic, Head(inflight).message)
    /\ inflight' = Tail(inflight)
    /\ UNCHANGED <<config, mqttState, retained>>

DnsRequest(request) ==
    LET r == handleDnsRequest(config, records, request)
    IN  /\ last' = [ op |-> "dns",
                     request |-> request,
                     threw |-> r.threw,
                     sent |-> r.sent,
                     notFound |-> r.notFound ]
        /\ UNCHANGED <<config, records, mqttState, inflight, tombstoned, retained>>

\* a mutating route that also applies its message to the store itself
AdminWrite_WritesStore(op, subdomain, body, r) ==
    /\ Len(inflight) + Len(r.published) <= MaxInflight
    /\ inflight' = inflight \o r.published
    /\ records' = messageHandler(config, records, r.published[1].topic,
                                 r.published[1].message).records
    /\ last' = [ op |-> op,
                 subdomain |-> subdomain,
                 body |-> body,
                 published |-> r.published,
                 status |-> r.status ]
    /\ UNCHANGED <<config, mqttState, tombstoned, retained>>

\* a mutating route: its publish calls go out, then the response is sent
AdminWrite(op, subdomain, body, r) ==
    /\ Len(inflight) + Len(r.published) <= MaxInflight
    /\ inflight' = inflight \o r.published
    /\ last' = [ op |-> op,
                 subdomain |-> subdomain,
                 body |-> body,
                 published |-> r.published,
                 status |-> r.status ]
    /\ UNCHANGED <<config, records, mqttState, tombstoned, retained>>

PostRecords(body) ==
    AdminWrite("post", body.subdomain, body, postRecords(config, body))

PutRecord(subdomain, body) ==
    AdminWrite("put", subdomain, body, putRecord(config, subdomain, body))

DeleteRecord(subdomain) ==
    AdminWrite("delete", subdomain, <<>>, deleteRecord(config, subdomain))

GetRecord(subdomain) ==
    LET r == getRecord(config, records, subdomain)
    IN  /\ last' = [ op |-> "get",
                     subdomain |-> subdomain,
                     threw |-> r.threw,
                     status |-> r.status,
                     json |-> r.json ]
        /\ UNCHANGED <<config, records, mqttState, inflight, tombstoned, retained>>

ListRecords ==
    LET r == listRecords(records)
    IN  /\ last' = [op |-> "list", status |-> r.status, json |-> r.json]
        /\ UNCHANGED <<config, records, mqttState, inflight, tombstoned, retained>>

\* the lifecycle events of mqttClient
Lifecycle ==
    \/ OnConnect
    \/ OnClose
    \/ OnOffline
    \/ OnReconnect
    \/ OnError

\* the whole system: sync bridge, DNS responder and admin routes
Next ==
    \/ Lifecycle
    \/ \E m \in SystemMessages : OnMessage(m[1], m[2])
    \/ OnPublishedMessage
    \/ \E request \in SystemDnsRequests : DnsRequest(request)
    \/ \E body \in PostBodies : PostRecords(body)
    \/ \E s \in Subdomains, p \in AdminPayloads : PutRecord(s, p)
    \/ \E s \in Subdomains : DeleteRecord(s)
    \/ \E s \in Subdomains : GetRecord(s)
    \/ ListRecords

Spec == Init /\ [][Next]_vars

\* the sync bridge and the DNS responder alone, over every configuration and
\* every kind of payload and request
InitResolver ==
    /\ config \in Configs
    /\ records = EmptyMap
    /\ mqttState = "connecting"
    /\ inflight = <<>>
    /\ last = [op |-> "start"]
    /\ tombstoned = {}
    /\ retained = EmptyMap

NextResolver ==
    \/ Lifecycle
    \/ \E m \in ExternalMessages : OnMessage(m[1], m[2])
    \/ \E request \in DnsRequests : DnsRequest(request)

SpecResolver == InitResolver /\ [][NextResolver]_vars

----------------------------------------------------------------------------
(* Properties *)

\* each well-formed text of the inputs with the payload it spells
ValidMessages ==
    { <<JSONstringify(p), p>> :
        p \in { PayloadCname, PayloadCnameTtl, PayloadCnameMinTtl, PayloadCnameMaxTtl,
                PayloadA, PayloadTxt } }
    \cup { <<TextExtraKey, PayloadCname>> }

\* the value an answer carries: the address of an A, the target of a CNAME
AnswerValue(answer) == IF answer.type = "A" THEN answer.address ELSE answer.domain

\* the answers of the responses sent to a one-question query for `name`
QueryAnswers(recs, name) ==
    LET r == handleDnsRequest(config, recs, [questions |-> <<Question(name, "A")>>])
    IN  [i \in 1..Len(r.sent) |-> r.sent[i].answers]

\* s is a suffix of n, position by position
IsSuffixOf(s, n) == \E k \in 0..Len(n) : [i \in 1..(Len(n) - k) |-> n[k + i]] = s

LastIsMessageFor(subdomain) ==
    /\ last.op = "message"
    /\ last.topic = TopicOf(config, subdomain)

\* C1: once the message handler has applied a valid payload P (type A, CNAME
\* or TXT, non-empty value, optional ttl) delivered on the topic of subdomain
\* s, a query for s.<domain> is answered with exactly one answer whose type
\* and value are P's.
C1_ValidPayloadResolves ==
    \A s \in Subdomains : \A vm \in ValidMessages :
        (LastIsMessageFor(s) /\ last.message = vm[1]) =>
            /\ QueryAnswers(records, Fqdn(config, s)) # <<>>
            /\ \A i \in DOMAIN QueryAnswers(records, Fqdn(config, s)) :
                LET answers == QueryAnswers(records, Fqdn(config, s))[i]
                IN  /\ Len(answers) = 1
                    /\ answers[1].type = vm[2].type
                    /\ AnswerValue(answers[1]) = vm[2].value

\* C2: a delivered message on a subdomain's topic whose non-empty payload
\* fails JSON parsing or fails the schema leaves the record store exactly as
\* it was, so every stored record is still what a query for its name returns.
C2_MalformedLeavesStore ==
    [][ \A s \in Subdomains :
          ( /\ last'.op = "message"
            /\ last'.topic = TopicOf(config, s)
            /\ last'.message \in InvalidTexts )
          => /\ records' = records
             /\ \A name \in DOMAIN records :
                    QueryAnswers(records', name) = << <<records[name]>> >> ]_vars

\* C2 witness: a malformed payload was handled on the topic of a subdomain
\* that has a record, the failure was reported, and the record is still there
C2_Witness ==
    /\ LastIsMessageFor(str_printer)
    /\ last.message \in InvalidTexts
    /\ last.payloadError
    /\ MapHas(records, NamePrinter)
    /\ MapHas(records, NameNas)

\* C3: an empty payload on the topic of subdomain s removes the entry of
\* s.<domain> and leaves every other entry as it was; with no such entry the
\* store is unchanged; a following query for s.<domain> gets the fallback
\* answer or no answer, never the removed record.
C3_TombstoneRemoves ==
    [][ \A s \in Subdomains :
          ( /\ last'.op = "message"
            /\ last'.topic = TopicOf(config, s)
            /\ last'.message = EmptyString )
          => LET fqdn == Fqdn(config, s)
                 answers == QueryAnswers(records', fqdn)
             IN  /\ DOMAIN records' = (DOMAIN records) \ {fqdn}
                 /\ \A k \in DOMAIN records' : records'[k] = records[k]
                 /\ ~MapHas(records, fqdn) => records' = records
                 /\ Len(answers) = 1
                 /\ \/ answers[1] = <<>>
                    \/ /\ Len(answers[1]) = 1
                       /\ answers[1][1].type = "A"
                       /\ answers[1][1].address = config.dns.fallbackAddress
                 /\ MapHas(records, fqdn) => answers[1] # <<records[fqdn]>> ]_vars

\* C3 witness: the tombstone removed the printer entry and the nas entry stayed
C3_Witness ==
    /\ LastIsMessageFor(str_printer)
    /\ last.message = EmptyString
    /\ last.removed
    /\ ~MapHas(records, NamePrinter)
    /\ MapHas(records, NameNas)

\* a delivered text that is the tombstone or spells a schema-valid payload
WellFormed(messageString) ==
    \/ messageString = EmptyString
    \/ \E vm \in ValidMessages : vm[1] = messageString

\* the entry of fqdn is the same in both stores
SameEntry(recsA, recsB, fqdn) ==
    /\ MapHas(recsA, fqdn) <=> MapHas(recsB, fqdn)
    /\ MapHas(recsA, fqdn) => recsA[fqdn] = recsB[fqdn]

\* C4: last write wins per fqdn: the entry of an fqdn is decided by the last
\* well-formed message delivered on its topic alone: absent after a
\* tombstone, otherwise the record built from that payload's type, value and
\* ttl, whatever was stored before; no other step changes the entry.
C4_LastWriteWins ==
    [][ \A s \in Subdomains :
          LET fqdn == Fqdn(config, s)
          IN  IF /\ last'.op = "message"
                 /\ last'.topic = TopicOf(config, s)
                 /\ WellFormed(last'.message)
              THEN IF last'.message = EmptyString
                   THEN ~MapHas(records', fqdn)
                   ELSE \A vm \in ValidMessages :
                          vm[1] = last'.message =>
                            /\ MapHas(records', fqdn)
                            /\ records'[fqdn].type = vm[2].type
                            /\ AnswerValue(records'[fqdn]) = vm[2].value
                            /\ records'[fqdn].ttl =
                                 IF "ttl" \in DOMAIN vm[2] THEN vm[2].ttl
                                 ELSE config.dns.ttl
              ELSE SameEntry(records', records, fqdn) ]_vars

\* the handler has answered a request that carried a question
LastIsDns == last.op = "dns" /\ ~last.threw

LastName == last.request.questions[1].name

SomeSuffixMatches(name) ==
    \E i \in DOMAIN config.dns.fallbackDomains :
        IsSuffixOf(config.dns.fallbackDomains[i], name)

\* C5: a queried name with no record in the store that ends with at least
\* one configured fallback suffix gets exactly one answer: type A, the
\* queried name, the fallback address, the default TTL, for every suffix
\* string and every query type.
C5_FallbackAnswer ==
    (LastIsDns /\ ~MapHas(records, LastName) /\ SomeSuffixMatches(LastName)) =>
        /\ Len(last.sent) = 1
        /\ Len(last.sent[1].answers) = 1
        /\ last.sent[1].answers[1].type = "A"
        /\ last.sent[1].answers[1].name = LastName
        /\ last.sent[1].answers[1].address = config.dns.fallbackAddress
        /\ last.sent[1].answers[1].ttl = config.dns.ttl

\* C6: when the store holds a record for the queried name the response
\* carries exactly that record and no fallback answer, also when the name
\* ends with a fallback suffix.
C6_ExactMatchOnly ==
    (LastIsDns /\ MapHas(records, LastName)) =>
        /\ Len(last.sent) = 1
        /\ last.sent[1].answers = <<records[LastName]>>

\* C6 witness: a stored name that also ends with a fallback suffix was queried
C6_Witness ==
    /\ LastIsDns
    /\ MapHas(records, LastName)
    /\ SomeSuffixMatches(LastName)
    /\ Len(last.sent) = 1

\* C7: a queried name with no record in the store that ends with none of the
\* configured fallback suffixes gets a response with zero answers.
C7_NoMatchNoAnswer ==
    (LastIsDns /\ ~MapHas(records, LastName) /\ ~SomeSuffixMatches(LastName)) =>
        /\ Len(last.sent) = 1
        /\ last.sent[1].answers = <<>>

\* C7 witness: fallback suffixes are configured, foo.otherdomain.org ends with
\* none of them and was answered
C7_Witness ==
    /\ LastIsDns
    /\ LastName = NameFooOther
    /\ config.dns.fallbackDomains = <<str_example_org, str_an_test>>
    /\ ~SomeSuffixMatches(LastName)
    /\ Len(last.sent) = 1

\* C8: for every request with one or more questions the handler calls
\* sendResponse exactly once, in the exact-match, the fallback and the
\* no-match branch.
C8_RespondsExactlyOnce ==
    (last.op = "dns" /\ Len(last.request.questions) >= 1) => Len(last.sent) = 1

\* C8 witness: a request with two questions ended in the no-match branch
C8_Witness ==
    /\ last.op = "dns"
    /\ Len(last.request.questions) >= 2
    /\ last.notFound
    /\ Len(last.sent) = 1

AdminWriteOps == {"post", "put", "delete"}

\* C9: POST /records, PUT /records/:subdomain and DELETE /records/:subdomain
\* leave the record store as it was; the only steps that change the store
\* are runs of the message handler on a delivered message.
C9_OnlyMessagesWriteStore ==
    [][ /\ last'.op \in AdminWriteOps => records' = records
        /\ records' # records => last'.op = "message" ]_vars

\* C9 witness: a PUT for printer was answered while the store held nas only
C9_Witness ==
    /\ last.op = "put"
    /\ last.subdomain = str_printer
    /\ last.status = 201
    /\ ~MapHas(records, NamePrinter)
    /\ MapHas(records, NameNas)

\* the JSON text {type, value, ttl?} of a request body
SchemaShapedText(body) ==
    ObjectText(<< <<"type", JsString(body.type)>>, <<"value", JsString(body.value)>> >>
               \o (IF "ttl" \in DOMAIN body
                   THEN << <<"ttl", JsNumber(body.ttl, TRUE)>> >>
                   ELSE <<>>))

\* C10: every accepted mutating admin request for subdomain s makes exactly
\* one publish call, on <topicPrefix>/<domain>/s with retain set, with an
\* empty payload for delete and the JSON text {type, value, ttl?} for
\* create/replace, and answers with success while that message is still
\* undelivered.
C10_PublishThenRespond ==
    last.op \in AdminWriteOps =>
        /\ Len(last.published) = 1
        /\ last.published[1].topic =
               config.mqtt.topicPrefix \o Slash \o config.dns.domain
                   \o Slash \o last.subdomain
        /\ last.published[1].retain
        /\ last.op = "delete" => last.published[1].message = EmptyString
        /\ last.op # "delete" => last.published[1].message = SchemaShapedText(last.body)
        /\ last.status \in 200..299
        /\ inflight # <<>>
        /\ inflight[Len(inflight)] = last.published[1]

\* C10 witness: a PUT with a ttl was answered 201 with its message in flight
\* and no record for the subdomain in the store yet
C10_Witness ==
    /\ last.op = "put"
    /\ "ttl" \in DOMAIN last.body
    /\ last.status = 201
    /\ Len(inflight) = 1
    /\ ~MapHas(records, Fqdn(config, last.subdomain))

\* the records the resolver answers by exact match, over every name that is
\* queried or stored
ExactMatchAnswers(recs) ==
    { QueryAnswers(recs, name)[1][1] :
        name \in { n \in QueryNames \cup DOMAIN recs : MapHas(recs, n) } }

\* C12: the admin read view and the resolver view agree: GET
\* /records/:s returns record R exactly when a query for s.<domain> is
\* answered with R from the store, GET /records returns exactly the records
\* the resolver answers by exact match, and neither read publishes or waits
\* for a message (store and in-flight messages are as they were).
C12_ReadViewsAgree ==
    [][ /\ last'.op = "get" =>
             LET name == Fqdn(config, last'.subdomain)
                 answers == QueryAnswers(records', name)
             IN  /\ Len(answers) = 1
                 /\ IF MapHas(records', name)
                    THEN /\ last'.json = <<records'[name]>>
                         /\ answers[1] = last'.json
                    ELSE /\ last'.json = <<>>
                         /\ \A k \in DOMAIN records' : answers[1] # <<records'[k]>>
                 /\ records' = records
                 /\ inflight' = inflight
        /\ last'.op = "list" =>
             /\ last'.json = ExactMatchAnswers(records')
             /\ \A R \in last'.json : QueryAnswers(records', R.name) = << <<R>> >>
             /\ records' = records
             /\ inflight' = inflight ]_vars

\* C12 witness: GET returned the stored record of a subdomain while a write
\* to the same subdomain was still in flight
C12_Witness ==
    /\ last.op = "get"
    /\ last.status = 200
    /\ last.json = <<records[Fqdn(config, last.subdomain)]>>
    /\ inflight # <<>>
    /\ inflight[1].topic = TopicOf(config, last.subdomain)

\* C13: tombstone finality: after any sequence of deliveries the store holds
\* no record for an fqdn whose topic's most recently delivered message had an
\* empty payload.
C13_TombstoneFinal ==
    \A s \in Subdomains :
        TopicOf(config, s) \in tombstoned => ~MapHas(records, Fqdn(config, s))

\* C13 witness: the latest delivery on the printer topic was empty and removed
\* a record, and deliveries on the nas topic have stored a record since
C13_Witness ==
    /\ TopicPrinter \in tombstoned
    /\ ~MapHas(records, NamePrinter)
    /\ LastIsMessageFor(str_nas)
    /\ last.message # EmptyString
    /\ MapHas(records, NameNas)

\* the entry of fqdn is a record built from payload's type and value
AppliedFrom(recs, fqdn, payload) ==
    /\ MapHas(recs, fqdn)
    /\ recs[fqdn].type = payload.type
    /\ AnswerValue(recs[fqdn]) = payload.value

\* C15: TTL resolution: a record applied from a valid payload without a ttl
\* is answered with the configured default TTL, and a record applied from a
\* valid payload with ttl = t is answered with TTL exactly t.
C15_TtlResolution ==
    \A s \in Subdomains : \A vm \in ValidMessages :
        LET fqdn == Fqdn(config, s)
            answers == QueryAnswers(records, fqdn)
        IN  ( /\ LastIsMessageFor(s)
              /\ last.message = vm[1]
              /\ AppliedFrom(records, fqdn, vm[2]) )
            => /\ Len(answers) = 1
               /\ Len(answers[1]) = 1
               /\ answers[1][1].ttl = IF "ttl" \in DOMAIN vm[2]
                                      THEN vm[2].ttl
                                      ELSE config.dns.ttl

\* C15 witness: a payload with the largest TTL was applied over a record
\* that carries another TTL for the other subdomain
C15_Witness ==
    /\ LastIsMessageFor(str_printer)
    /\ last.message = JSONstringify(PayloadCnameMaxTtl)
    /\ AppliedFrom(records, NamePrinter, PayloadCnameMaxTtl)
    /\ QueryAnswers(records, NamePrinter)[1][1].ttl = PayloadCnameMaxTtl.ttl
    /\ MapHas(records, NameNas)
    /\ records[NameNas].ttl = config.dns.ttl

\* the configuration of the end-to-end scenario: domain lan.test, default TTL
\* 300, fallback suffix lan.test with address 192.0.2.1
ScenarioConfig == ConfigWith(<<str_lan_test>>)

ScenarioDelivered(l, messageString) ==
    /\ l.op = "message"
    /\ l.topic = TopicPrinter
    /\ l.message = messageString

\* after the CNAME payload: one CNAME answer, target printer.internal, TTL 300
ScenarioCnameAnswered ==
    ScenarioDelivered(last', JSONstringify(PayloadCname))
    => QueryAnswers(records', NamePrinter)
         = << << [ name |-> NamePrinter, type |-> "CNAME", class |-> "IN",
                   ttl |-> 300, domain |-> "printer.internal" ] >> >>

\* the empty payload is delivered right after the CNAME payload
ScenarioTombstoned ==
    /\ ScenarioDelivered(last, JSONstringify(PayloadCname))
    /\ ScenarioDelivered(last', EmptyString)

\* C16 as stated: in the scenario configuration, after the CNAME payload
\* for subdomain printer a query for printer.lan.test gets exactly one CNAME
\* answer (printer.internal, TTL 300), and after the empty payload that
\* follows on the same topic the query gets zero answers.
C16_Scenario ==
    [][ config = ScenarioConfig =>
          /\ ScenarioCnameAnswered
          /\ ScenarioTombstoned
               => QueryAnswers(records', NamePrinter) = << <<>> >> ]_vars

\* C16 amended: after the CNAME payload the query gets exactly one CNAME
\* answer (printer.internal, TTL 300); after the empty payload that follows
\* the record is gone and, printer.lan.test still ending with the fallback
\* suffix lan.test, the query gets exactly one fallback answer: type A,
\* address 192.0.2.1, TTL 300.
C16_ScenarioFallback ==
    [][ config = ScenarioConfig =>
          /\ ScenarioCnameAnswered
          /\ ScenarioTombstoned
               => /\ ~MapHas(records', NamePrinter)
                  /\ QueryAnswers(records', NamePrinter)
                       = << << [ name |-> NamePrinter, type |-> "A", class |-> "IN",
                                 ttl |-> 300, address |-> "192.0.2.1" ] >> >> ]_vars

\* C16 witness: in the scenario configuration the empty payload removed the
\* printer record and the query is answered with the fallback address
C16_Witness ==
    /\ config = ScenarioConfig
    /\ ScenarioDelivered(last, EmptyString)
    /\ last.removed
    /\ Len(QueryAnswers(records, NamePrinter)[1]) = 1
    /\ QueryAnswers(records, NamePrinter)[1][1].address = "192.0.2.1"

\* C17 as stated: GET /records/:subdomain for a subdomain with no record ends
\* in a not-found outcome, a normal result that is neither a thrown error nor
\* a server-fault status, returns no record and leaves the store unchanged.
C17_AbsentIsNotFound ==
    [][ ( /\ last'.op = "get"
          /\ ~MapHas(records, Fqdn(config, last'.subdomain)) )
        => /\ ~last'.threw
           /\ last'.status < 500
           /\ last'.json = <<>>
           /\ records' = records ]_vars

\* topic is `<topicPrefix>/<domain>/` followed by a non-empty remainder
UnderBaseTopic(topic) ==
    LET base == config.mqtt.topicPrefix \o Slash \o config.dns.domain \o Slash
    IN  /\ Len(topic) > Len(base)
        /\ \A i \in 1..Len(base) : topic[i] = base[i]

\* C18: a delivered message whose topic does not start with
\* <topicPrefix>/<domain>/, or whose remainder after that prefix is empty, is
\* ignored: the store is unchanged, no payload error is reported and the
\* payload is never parsed.
C18_ForeignTopicIgnored ==
    [][ (last'.op = "message" /\ ~UnderBaseTopic(last'.topic))
        => /\ records' = records
           /\ ~last'.payloadError
           /\ ~last'.parsed ]_vars

\* C18 witness: a payload that would be stored was delivered on the topic
\* with the empty remainder while the store held a record
C18_Witness ==
    /\ last.op = "message"
    /\ last.topic = str_dns \o Slash \o str_lan_test \o Slash
    /\ ~UnderBaseTopic(last.topic)
    /\ last.message = JSONstringify(PayloadCname)
    /\ ~last.parsed
    /\ MapHas(records, NamePrinter)

LifecycleOps == {"connect", "reconnect", "close", "offline", "error"}

\* C19: the connection lifecycle events (connect, reconnect, close, offline,
\* error) never modify the record store, and while the client is not
\* connected a query for a stored name is still answered with the stored
\* record, the store being what the last applied message left.
C19_LifecycleKeepsStore ==
    [][ /\ last'.op \in LifecycleOps => records' = records
        /\ ( /\ last'.op = "dns"
             /\ ~last'.threw
             /\ mqttState # "connected" )
           => LET name == last'.request.questions[1].name
              IN  /\ records' = records
                  /\ MapHas(records, name)
                       => last'.sent[1].answers = <<records[name]>> ]_vars

\* C19 witness: after a close, with a published message still undelivered, a
\* query for a stored name was answered with its record
C19_Witness ==
    /\ mqttState = "disconnected"
    /\ inflight # <<>>
    /\ LastIsDns
    /\ MapHas(records, LastName)
    /\ last.sent[1].answers = <<records[LastName]>>

\* the answers as a function of the configuration, the store and the name
\* alone: the stored record; else, when the first suffix the name ends with
\* is non-empty, the fallback answer; else none
AnswersOf(cfg, recs, name) ==
    LET suffixes == cfg.dns.fallbackDomains
        hits == {i \in DOMAIN suffixes : IsSuffixOf(suffixes[i], name)}
        first == CHOOSE i \in hits : \A j \in hits : i <= j
    IN  IF name \in DOMAIN recs THEN <<recs[name]>>
        ELSE IF hits = {} THEN <<>>
        ELSE IF suffixes[first] = EmptyString THEN <<>>
        ELSE << [ name |-> name, type |-> "A", class |-> "IN",
                  ttl |-> cfg.dns.ttl, address |-> cfg.dns.fallbackAddress ] >>

\* C20: the answers of a DNS response are a function of the store contents,
\* the first question's name and the static configuration only, so that
\* runs differing in connection state or in undelivered messages get the
\* same response to the same query; and the handler can take every request
\* in every connection state.
C20_ResponseFromStoreOnly ==
    /\ LastIsDns =>
         /\ Len(last.sent) = 1
         /\ last.sent[1].answers = AnswersOf(config, records, LastName)
    /\ \A request \in SystemDnsRequests : ENABLED DnsRequest(request)

\* C20 witness: a query was answered from the store while the client was
\* disconnected and a message that would replace the answer was undelivered
C20_Witness ==
    /\ LastIsDns
    /\ mqttState = "disconnected"
    /\ inflight # <<>>
    /\ inflight[1].topic = TopicPrinter
    /\ LastName = NamePrinter
    /\ MapHas(records, NamePrinter)
    /\ last.sent[1].answers = <<records[NamePrinter]>>

\* the whole system under the delivery the broker owes a connected client:
\* a client that is offline reconnects (reconnectPeriod), a connection that
\* is attempted again and again is established, and a message that can be
\* delivered again and again is delivered
Fairness ==
    /\ WF_vars(OnReconnect)
    /\ SF_vars(OnConnect)
    /\ SF_vars(OnPublishedMessage)

SpecLive == Init /\ [][Next]_vars /\ Fairness

\* the route answered 201 to a create or replace of subdomain s with the
\* payload fields of P
AcceptedWrite(s, P) ==
    /\ last.op \in {"post", "put"}
    /\ last.status = 201
    /\ last.subdomain = s
    /\ last.body.type = P.type
    /\ last.body.value = P.value
    /\ ("ttl" \in DOMAIN last.body) <=> ("ttl" \in DOMAIN P)
    /\ "ttl" \in DOMAIN P => last.body.ttl = P.ttl

\* the store holds the record of s.<domain> that payload P spells
HoldsRecordOf(s, P) ==
    LET fqdn == Fqdn(config, s)
    IN  /\ AppliedFrom(records, fqdn, P)
        /\ records[fqdn].name = fqdn
        /\ records[fqdn].ttl = IF "ttl" \in DOMAIN P THEN P.ttl ELSE config.dns.ttl

\* C11 as stated: with fair in-order delivery, every create or replace the
\* admin routes accepted for subdomain s with payload P is eventually
\* followed by a state whose store holds the record of s.<domain> matching P,
\* and every accepted delete by a state with no record for s.<domain>.
C11_AdminWritesArrive ==
    /\ \A s \in Subdomains : \A P \in AdminPayloads :
           AcceptedWrite(s, P) ~> HoldsRecordOf(s, P)
    /\ \A s \in Subdomains :
           (last.op = "delete" /\ last.status = 204 /\ last.subdomain = s)
               ~> ~MapHas(records, Fqdn(config, s))

----------------------------------------------------------------------------
(* The client against a broker that retains messages *)

\* what a publish with retain: true leaves at the broker: an empty payload
\* clears the topic's retained message, any other payload replaces it
BrokerRetain(ret, topic, message) ==
    IF message = EmptyString
    THEN MapDelete(ret, topic)
    ELSE MapSet(ret, topic, message)

\* the retained publishes that reach the broker, from this server's routes
\* or from another instance
BrokerMessages ==
    {TopicPrinter, TopicNas} \X {EmptyString, JSONstringify(PayloadCname)}

\* a publish reaches the broker, which forwards it when the client is
\* subscribed; with clean: true nothing is kept for a client that is away
BrokerPublish(topic, message) ==
    /\ Len(inflight) < MaxInflight
    /\ retained' = BrokerRetain(retained, topic, message)
    /\ inflight' = IF mqttState = "connected"
                   THEN Append(inflight, PublishCall(topic, message))
                   ELSE inflight
    /\ last' = [op |-> "publish", topic |-> topic, message |-> message]
    /\ UNCHANGED <<config, records, mqttState, tombstoned>>

\* the replays of the retained messages, one per topic, in any order
Replays(ret) ==
    { q \in [1..Cardinality(DOMAIN ret) -> {PublishCall(t, ret[t]) : t \in DOMAIN ret}] :
        \A t \in DOMAIN ret : \E i \in DOMAIN q : q[i].topic = t }

\* mqttClient.on('connect'): the subscription makes the broker replay what it
\* retains on the subscribed topics
BrokerConnect ==
    /\ mqttState = "connecting"
    /\ mqttState' = "connected"
    /\ inflight' \in Replays(retained)
    /\ last' = [op |-> "connect", subscribed |-> mqttTopic(config) \o Slash \o <<"+">>]
    /\ UNCHANGED <<config, records, tombstoned, retained>>

\* mqttClient.on('close'): what was in flight to the client is lost
BrokerClose ==
    /\ mqttState \in {"connecting", "connected"}
    /\ mqttState' = "disconnected"
    /\ inflight' = <<>>
    /\ last' = [op |-> "close"]
    /\ UNCHANGED <<config, records, tombstoned, retained>>

BrokerDnsRequests ==
    { [questions |-> <<Question(n, "A")>>] : n \in {NamePrinter, NameNas} }

NextBroker ==
    \/ BrokerConnect
    \/ BrokerClose
    \/ OnOffline
    \/ OnReconnect
    \/ OnError
    \/ \E m \in BrokerMessages : BrokerPublish(m[1], m[2])
    \/ OnPublishedMessage
    \/ \E request \in BrokerDnsRequests : DnsRequest(request)

SpecBroker == Init /\ [][NextBroker]_vars

\* the client is subscribed and has received all the broker sent it
ReplayComplete == mqttState = "connected" /\ inflight = <<>>

\* C14 as stated: rehydration on reconnect: once the client has reconnected,
\* re-subscribed and received the replay of the retained messages, the store
\* holds a record for an fqdn only if the broker retains a non-empty payload
\* for its topic; a record whose delete was published while the client was
\* away is not served after the replay.
C14_RehydratedOnReconnect ==
    ReplayComplete =>
        \A s \in Subdomains :
            LET fqdn == Fqdn(config, s)
                topic == TopicOf(config, s)
            IN  /\ MapHas(records, fqdn) =>
                     /\ MapHas(retained, topic)
                     /\ retained[topic] # EmptyString
                /\ ~MapHas(retained, topic) =>
                     \A i \in DOMAIN QueryAnswers(records, fqdn) :
                         \A k \in DOMAIN records :
                             QueryAnswers(records, fqdn)[i] # <<records[k]>>

\* C21: for a request with several questions only the first is resolved: the
\* answers are those of a request carrying the first question's name alone,
\* every request with the same first name gets the same answers whatever its
\* later questions and its question type, and a response never carries more
\* than one answer.
C21_OnlyFirstQuestion ==
    LastIsDns =>
        /\ Len(last.sent) = 1
        /\ Len(last.sent[1].answers) <= 1
        /\ <<last.sent[1].answers>> = QueryAnswers(records, LastName)
        /\ \A other \in DnsRequests :
               ( /\ Len(other.questions) > 0
                 /\ other.questions[1].name = LastName )
               => handleDnsRequest(config, records, other).sent[1].answers
                    = last.sent[1].answers

\* C21 witness: a request whose first question names a stored record and
\* whose later question names another stored record got the first one only
C21_Witness ==
    /\ LastIsDns
    /\ Len(last.request.questions) > 1
    /\ LastName = NameNas
    /\ last.request.questions[2].name = NamePrinter
    /\ MapHas(records, NameNas)
    /\ MapHas(records, NamePrinter)
    /\ records[NamePrinter] # records[NameNas]
    /\ last.sent[1].answers = <<records[NameNas]>>

\* answer carries a TTL and it is a positive integer
HasPositiveTtl(answer) ==
    /\ "ttl" \in DOMAIN answer
    /\ answer.ttl \in Nat
    /\ answer.ttl > 0

\* C22: in every reachable state every record of the store has a TTL that
\* is a positive integer, never an absent one, and so has every answer sent,
\* the fallback answers included.
C22_TtlPositive ==
    /\ \A k \in DOMAIN records : HasPositiveTtl(records[k])
    /\ LastIsDns =>
         \A i \in DOMAIN last.sent :
             \A j \in DOMAIN last.sent[i].answers :
                 HasPositiveTtl(last.sent[i].answers[j])

\* C22 witness: a payload with ttl 0 was rejected on the topic of a record
\* stored with the default TTL, while the other record carries its own TTL
C22_Witness ==
    /\ LastIsMessageFor(str_printer)
    /\ last.message
         = CnameWith(<< <<"value", JsString("x.internal")>>, <<"ttl", JsNumber(0, TRUE)>> >>)
    /\ last.payloadError
    /\ MapHas(records, NamePrinter)
    /\ records[NamePrinter].ttl = config.dns.ttl
    /\ MapHas(records, NameNas)
    /\ records[NameNas].ttl = PayloadCnameTtl.ttl

\* what stands before `.<domain>` in key
SubdomainOfKey(key) == SubSeq(key, 1, Len(key) - Len(config.dns.domain) - 1)

\* key is `<subdomain>.<domain>` with a non-empty subdomain of one topic segment
IsFqdnKey(key) ==
    /\ Len(key) > Len(config.dns.domain) + 1
    /\ key = SubdomainOfKey(key) \o Dot \o config.dns.domain
    /\ \A i \in DOMAIN SubdomainOfKey(key) : SubdomainOfKey(key)[i] # "/"

\* C23: in every reachable state each store entry is keyed by an fqdn
\* <subdomain>.<domain> with a non-empty subdomain, holds one record whose
\* name is its key, and was written by the delivery of a message whose
\* topic's last segment is that subdomain; the DNS handler and the admin read
\* handlers never add, remove or rewrite entries.
C23_KeysAreFqdns ==
    [][ /\ \A k \in DOMAIN records' :
               /\ IsFqdnKey(k)
               /\ records'[k].name = k
               /\ (k \notin DOMAIN records \/ records'[k] # records[k])
                  => /\ last'.op = "message"
                     /\ last'.topic
                          = config.mqtt.topicPrefix \o Slash \o config.dns.domain
                              \o Slash \o SubdomainOfKey(k)
        /\ last'.op \in {"dns", "get", "list"} => records' = records ]_vars

\* C23 witness: both subdomains have an entry under their fqdn and the list
\* route has just read the two records
C23_Witness ==
    /\ last.op = "list"
    /\ DOMAIN records = {NamePrinter, NameNas}
    /\ \A k \in DOMAIN records : IsFqdnKey(k) /\ records[k].name = k
    /\ Cardinality(last.json) = 2

\* messageString spells a schema-valid payload of type A or TXT
SpellsAOrTxt(messageString) ==
    \E vm \in ValidMessages : vm[1] = messageString /\ vm[2].type \in {"A", "TXT"}

\* C24: in every reachable state every record of the store has type CNAME:
\* a schema-valid payload of type A or TXT leaves the store as it was and is
\* not counted as a payload error; no response carries a TXT answer, and a
\* type-A answer is always the fallback answer with the configured fallback
\* address, for a name that has no record.
C24_OnlyCnameStored ==
    [][ /\ \A k \in DOMAIN records' : records'[k].type = "CNAME"
        /\ (last'.op = "message" /\ SpellsAOrTxt(last'.message))
           => /\ records' = records
              /\ ~last'.payloadError
        /\ (last'.op = "dns" /\ ~last'.threw)
           => \A i \in DOMAIN last'.sent :
                  \A j \in DOMAIN last'.sent[i].answers :
                      LET answer == last'.sent[i].answers[j]
                      IN  /\ answer.type # "TXT"
                          /\ answer.type = "A"
                             => /\ answer.address = config.dns.fallbackAddress
                                /\ ~MapHas(records', answer.name) ]_vars

\* C24 witness: a TXT payload was parsed without error on the topic of a
\* subdomain whose CNAME record is still in the store
C24_Witness ==
    /\ LastIsMessageFor(str_printer)
    /\ last.message = JSONstringify(PayloadTxt)
    /\ last.parsed
    /\ ~last.payloadError
    /\ MapHas(records, NamePrinter)
    /\ records[NamePrinter].type = "CNAME"

====
